---- MODULE Spec2Model ----
(***************************************************************************)
(* Model of dfilan/cfr_kuhn_poker: the betting-round history types of     *)
(* src/src/solver_tree.rs (History, ChancyHistory, InfoSet, NodeInfo),    *)
(* the game definitions of src/src/game.rs, and the Pass/Bet variant of   *)
(* src/src/main.rs (History::append/retract, util_if_terminal,            *)
(* NodeInfo::get_strategy, cfr_recursive).                                 *)
(*                                                                         *)
(* Floating (f64) values are modelled as exact rationals <<num, den>> in  *)
(* lowest terms with den > 0; rounding of f64 is outside the model.       *)
(***************************************************************************)
EXTENDS Integers, Sequences, FiniteSets, TLC

VARIABLES
    \* ---- solver_tree.rs: ChancyHistory under construction
    hist,       \* the ChancyHistory currently held by the caller
    deck,       \* [Card; NUM_CARDS], the deck handed to the queries
    ret,        \* the value returned by the last ChancyHistory::extend call
    recv,       \* the receiver (&self) of the last extend call, after the call
    lastMove,   \* the move argument of the last extend call
    probs,      \* the prob arguments of the successful extend calls, in order
    \* ---- main.rs: the Pass/Bet variant
    mhist,      \* main.rs History {player_to_move, moves}
    mdeck,      \* main.rs deck [Card; 3]
    mpanic,     \* TRUE once History::append panicked
    mnode_map,  \* main.rs node_map: HashMap<InfoSet, NodeInfo>
    entryHist,  \* the history handed to the last cfr_recursive call, at its entry
    cfrOutcome, \* "none", or how the last cfr_recursive call ended
    \* ---- solver_tree.rs: NodeInfo
    legal,      \* the legal-move list the NodeInfo was created with
    node,       \* NodeInfo {regret_sum, strategy, strategy_sum}
    nodeStatus, \* "ok", or "panicked" after an expect() failed
    calls,      \* number of NodeInfo calls made so far
    lastOp,     \* the last NodeInfo operation
    stratLog,   \* <<w, s>> of each update_strategy call: its weight, the strategy it set
    avg         \* the value returned by get_average_strategy, until the next call

histVars == <<hist, deck, ret, recv, lastMove, probs>>
mainVars == <<mhist, mdeck, mpanic, mnode_map, entryHist, cfrOutcome>>
nodeVars == <<legal, node, nodeStatus, calls, lastOp, stratLog, avg>>
vars == <<histVars, mainVars, nodeVars>>

----------------------------------------------------------------------------
\* Bounds of the model
MaxLen == 4          \* longest ChancyHistory built
MaxMainLen == 3      \* longest main.rs History built
MaxCalls == 4        \* number of NodeInfo calls

----------------------------------------------------------------------------
\* Floating: exact rationals

Abs(x) == IF x < 0 THEN -x ELSE x

RECURSIVE GCD(_, _)
GCD(a, b) == IF b = 0 THEN a ELSE GCD(b, a % b)

Norm(n, d) ==
    LET s == IF d < 0 THEN -1 ELSE 1
        g == GCD(Abs(n), Abs(d))
    IN  <<(s * n) \div g, (s * d) \div g>>

Zero == <<0, 1>>
One == <<1, 1>>
FromInt(n) == <<n, 1>>
FMul(a, b) == Norm(a[1] * b[1], a[2] * b[2])
FAdd(a, b) == Norm(a[1] * b[2] + b[1] * a[2], a[2] * b[2])
FDiv(a, b) == Norm(a[1] * b[2], a[2] * b[1])
FGt(a, b) == a[1] * b[2] > b[1] * a[2]
FGe(a, b) == a[1] * b[2] >= b[1] * a[2]

Range(s) == {s[i] : i \in 1..Len(s)}
Contains(s, x) == \E i \in 1..Len(s) : s[i] = x

\* Option<T>
None == [tag |-> "None"]
Some(x) == [tag |-> "Some", val |-> x]
IsSome(o) == o.tag = "Some"
\* the outcome of a call that panicked
Panicked == [tag |-> "Panic"]

----------------------------------------------------------------------------
\* game.rs

Cards == {"Ten", "Jack", "Queen", "King", "Ace"}
NUM_CARDS == 5
Moves == {"Check", "Bet", "Call", "Raise", "Fold"}
Players == {"Player0", "Player1"}

\* derive(PartialOrd, Ord) on Card: declaration order
CardRank(c) ==
    CASE c = "Ten" -> 0
      [] c = "Jack" -> 1
      [] c = "Queen" -> 2
      [] c = "King" -> 3
      [] c = "Ace" -> 4

other_player(p) == IF p = "Player0" THEN "Player1" ELSE "Player0"

get_player_card(p, d) == IF p = "Player0" THEN d[1] ELSE d[2]

winning_player(d) ==
    LET card0 == get_player_card("Player0", d)
        card1 == get_player_card("Player1", d)
    IN  IF CardRank(card0) > CardRank(card1) THEN "Player0" ELSE "Player1"

\* decks of distinct cards, as the deck sampler supplies them
DeckOrder == <<"Ace", "King", "Queen", "Jack", "Ten">>
Decks == {[i \in 1..NUM_CARDS |-> perm[DeckOrder[i]]] : perm \in Permutations(Cards)}

----------------------------------------------------------------------------
\* solver_tree.rs: History

\* mutant: the Call branch is missing
termination_type_no_showdown(h) ==
    LET length == Len(h.moves)
        moves == h.moves
    IN  IF length > 1
        THEN IF moves[length] = "Check"
             THEN IF length = 2 /\ moves[1] = "Check"
                  THEN "DoubleCheck"
                  ELSE "Panic"
             ELSE IF moves[length] = "Fold" THEN "Fold"
             ELSE "InProgress"
        ELSE "InProgress"

termination_type(h) ==
    LET length == Len(h.moves)
        moves == h.moves
    IN  IF length > 1
        THEN IF moves[length] = "Check"
             THEN IF length = 2 /\ moves[1] = "Check"
                  THEN "DoubleCheck"
                  ELSE "Panic"
             ELSE IF moves[length] = "Fold" THEN "Fold"
             ELSE IF moves[length] = "Call" THEN "Showdown"
             ELSE "InProgress"
        ELSE "InProgress"

\* mutant: a Raise may be re-raised
next_moves_reraise(h) ==
    LET length == Len(h.moves)
    IN  IF length > 0
        THEN CASE h.moves[length] = "Check" -> <<"Check", "Bet">>
               [] h.moves[length] = "Bet" -> <<"Call", "Raise", "Fold">>
               [] h.moves[length] = "Call" -> <<>>
               [] h.moves[length] = "Raise" -> <<"Call", "Raise", "Fold">>
               [] h.moves[length] = "Fold" -> <<>>
        ELSE <<"Check", "Bet">>

next_moves(h) ==
    LET length == Len(h.moves)
    IN  IF length > 0
        THEN CASE h.moves[length] = "Check" -> <<"Check", "Bet">>
               [] h.moves[length] = "Bet" -> <<"Call", "Raise", "Fold">>
               [] h.moves[length] = "Call" -> <<>>
               [] h.moves[length] = "Raise" -> <<"Call", "Fold">>
               [] h.moves[length] = "Fold" -> <<>>
        ELSE <<"Check", "Bet">>

----------------------------------------------------------------------------
\* solver_tree.rs: ChancyHistory
\* moves_and_counterfactual_reach_probs[i] = <<<<prob_0, prob_1>>, move>>

ChancyHistory_new ==
    [player_to_move |-> "Player0", moves_and_counterfactual_reach_probs |-> <<>>]

determinize(ch) ==
    [player_to_move |-> ch.player_to_move,
     moves |-> [i \in 1..Len(ch.moves_and_counterfactual_reach_probs) |->
                   ch.moves_and_counterfactual_reach_probs[i][2]]]

\* mutant: the card is always the first card of the deck
to_info_set_first_card(ch, d) ==
    LET history == determinize(ch)
        card == get_player_card("Player0", d)
    IN  [card |-> card, history |-> history]

to_info_set(ch, d) ==
    LET history == determinize(ch)
        card == get_player_card(ch.player_to_move, d)
    IN  [card |-> card, history |-> history]

len(ch) == Len(ch.moves_and_counterfactual_reach_probs)

is_terminal(ch) ==
    LET t == termination_type(determinize(ch))
    IN  IF t = "Panic" THEN "Panic" ELSE IF t # "InProgress" THEN "true" ELSE "false"

\* mutant: a Fold pays 1 whether or not there was a Raise
util_if_terminal_flat_fold(ch, d) ==
    LET current_player_winning == winning_player(d) = ch.player_to_move
        has_raise == Contains(determinize(ch).moves, "Raise")
        t == termination_type(determinize(ch))
    IN  CASE t = "InProgress" -> None
          [] t = "DoubleCheck" -> Some(IF current_player_winning THEN 1 ELSE -1)
          [] t = "Fold" -> Some(1)
          [] t = "Showdown" ->
                Some((IF has_raise THEN 3 ELSE 2) * (IF current_player_winning THEN 1 ELSE -1))
          [] t = "Panic" -> Panicked

util_if_terminal(ch, d) ==
    LET current_player_winning == winning_player(d) = ch.player_to_move
        has_raise == Contains(determinize(ch).moves, "Raise")
        t == termination_type(determinize(ch))
    IN  CASE t = "InProgress" -> None
          [] t = "DoubleCheck" -> Some(IF current_player_winning THEN 1 ELSE -1)
          [] t = "Fold" -> Some(IF has_raise THEN 2 ELSE 1)
          [] t = "Showdown" ->
                Some((IF has_raise THEN 3 ELSE 2) * (IF current_player_winning THEN 1 ELSE -1))
          [] t = "Panic" -> Panicked

\* mutant: the legality check is missing
extend_unchecked(ch, m, prob) ==
    LET new_player == other_player(ch.player_to_move)
        length == len(ch)
        last == ch.moves_and_counterfactual_reach_probs[length][1]
        counterfac_probs ==
            IF length = 0
            THEN <<prob, One>>
            ELSE IF ch.player_to_move = "Player0"
                 THEN <<FMul(last[1], prob), last[2]>>
                 ELSE <<last[1], FMul(last[2], prob)>>
    IN  Some([player_to_move |-> new_player,
              moves_and_counterfactual_reach_probs |->
                  Append(ch.moves_and_counterfactual_reach_probs,
                         <<counterfac_probs, m>>)])

extend(ch, m, prob) ==
    LET new_player == other_player(ch.player_to_move)
        legal_moves == next_moves(determinize(ch))
        length == len(ch)
        last == ch.moves_and_counterfactual_reach_probs[length][1]
        counterfac_probs ==
            IF length = 0
            THEN <<prob, One>>
            ELSE IF ch.player_to_move = "Player0"
                 THEN <<FMul(last[1], prob), last[2]>>
                 ELSE <<last[1], FMul(last[2], prob)>>
    IN  IF ~Contains(legal_moves, m) THEN None
        ELSE IF length = 0 /\ ch.player_to_move # "Player0" THEN Panicked
        ELSE Some([player_to_move |-> new_player,
                   moves_and_counterfactual_reach_probs |->
                       Append(ch.moves_and_counterfactual_reach_probs,
                              <<counterfac_probs, m>>)])

\* mutant: only Player0's coordinate is returned
get_reach_prob_first_only(ch) ==
    LET length == len(ch)
        last == ch.moves_and_counterfactual_reach_probs[length][1]
    IN  IF length = 0 THEN One ELSE last[1]

get_reach_prob(ch) ==
    LET length == len(ch)
        last == ch.moves_and_counterfactual_reach_probs[length][1]
    IN  IF length = 0 THEN One ELSE FMul(last[1], last[2])

\* mutant: the coordinates are swapped (the player's own product is returned)
get_counterfactual_reach_prob_own(ch) ==
    LET length == len(ch)
        last == ch.moves_and_counterfactual_reach_probs[length][1]
    IN  IF length = 0 THEN One
        ELSE IF ch.player_to_move = "Player0" THEN last[1] ELSE last[2]

get_counterfactual_reach_prob(ch) ==
    LET length == len(ch)
        last == ch.moves_and_counterfactual_reach_probs[length][1]
    IN  IF length = 0 THEN One
        ELSE IF ch.player_to_move = "Player0" THEN last[2] ELSE last[1]

----------------------------------------------------------------------------
\* The ChancyHistory state machine: a caller builds histories with
\* ChancyHistory::new() and h.extend(m, p), as the tests of solver_tree.rs do.

\* the probabilities the callers supply: those of the tests of solver_tree.rs
\* (0.8, 0.7)
ProbSet == {<<4, 5>>, <<7, 10>>}

InitHistVars ==
    /\ hist = ChancyHistory_new
    /\ ret = None
    /\ recv = ChancyHistory_new
    /\ lastMove = "NoCall"
    /\ probs = <<>>

Extend(m, p) ==
    /\ len(hist) < MaxLen
    /\ LET r == extend(hist, m, p)
       IN  /\ ret' = r
           /\ recv' = hist
           /\ lastMove' = m
           /\ hist' = IF IsSome(r) THEN r.val ELSE hist
           /\ probs' = IF IsSome(r) THEN Append(probs, p) ELSE probs
    /\ UNCHANGED <<deck, mainVars, nodeVars>>

New ==
    /\ len(hist) > 0
    /\ hist' = ChancyHistory_new
    /\ ret' = None
    /\ recv' = ChancyHistory_new
    /\ lastMove' = "NoCall"
    /\ probs' = <<>>
    /\ UNCHANGED <<deck, mainVars, nodeVars>>

----------------------------------------------------------------------------
\* main.rs: the Pass/Bet variant (3 cards)

MainCards == {"Queen", "King", "Ace"}
MAIN_NUM_CARDS == 3
MOVE_LIST == <<"Pass", "Bet">>
PLAYER_LIST == <<"Player0", "Player1">>

MainDecks ==
    {d \in [1..MAIN_NUM_CARDS -> MainCards] :
        \A i, j \in 1..MAIN_NUM_CARDS : i # j => d[i] # d[j]}

\* main.rs declares its own Card order (Queen < King < Ace) and helpers
MainCardRank(c) ==
    CASE c = "Queen" -> 0
      [] c = "King" -> 1
      [] c = "Ace" -> 2

main_get_player_card(p, d) == IF p = "Player0" THEN d[1] ELSE d[2]

main_winning_player(d) ==
    LET card0 == main_get_player_card("Player0", d)
        card1 == main_get_player_card("Player1", d)
    IN  IF MainCardRank(card0) > MainCardRank(card1) THEN "Player0" ELSE "Player1"

History_new == [player_to_move |-> "Player0", moves |-> <<>>]

\* History::append: the new history, or Panicked on the wrong player's turn
History_append(h, p, m) ==
    IF p # h.player_to_move
    THEN Panicked
    ELSE Some([player_to_move |-> other_player(p), moves |-> Append(h.moves, m)])

\* History::retract: Vec::pop on an empty vector is a no-op
History_retract(h) ==
    [player_to_move |-> other_player(h.player_to_move),
     moves |-> IF Len(h.moves) = 0 THEN <<>> ELSE SubSeq(h.moves, 1, Len(h.moves) - 1)]

main_util_if_terminal(h, d) ==
    LET n == Len(h.moves)
        terminal_pass == h.moves[n] = "Pass"
        double_bet == h.moves[n] = "Bet" /\ h.moves[n - 1] = "Bet"
        current_player_winning == main_winning_player(d) = h.player_to_move
    IN  IF n > 1
        THEN IF terminal_pass
             THEN IF n = 0 /\ h.moves[1] = "Pass"
                  THEN Some(IF current_player_winning THEN 1 ELSE -1)
                  ELSE Some(1)
             ELSE IF double_bet
                  THEN Some(IF current_player_winning THEN 2 ELSE -2)
                  ELSE None
        ELSE None

MainAppend(p, m) ==
    /\ ~mpanic
    /\ Len(mhist.moves) < MaxMainLen
    /\ LET r == History_append(mhist, p, m)
       IN  IF IsSome(r)
           THEN mhist' = r.val /\ mpanic' = FALSE
           ELSE mhist' = mhist /\ mpanic' = TRUE
    /\ UNCHANGED <<mdeck, mnode_map, entryHist, cfrOutcome, histVars, nodeVars>>

MainRetract ==
    /\ ~mpanic
    /\ mhist' = History_retract(mhist)
    /\ UNCHANGED <<mdeck, mpanic, mnode_map, entryHist, cfrOutcome, histVars, nodeVars>>

----------------------------------------------------------------------------
\* main.rs: NodeInfo and cfr_recursive

\* HashMap::new()
EmptyMap == [x \in {} |-> Zero]
\* HashMap::insert
MapInsert(map, k, v) == [x \in (DOMAIN map) \cup {k} |-> IF x = k THEN v ELSE map[x]]
\* HashMap::get(..).unwrap_or_else(|| &0.0)
MapGetOrZero(map, k) == IF k \in DOMAIN map THEN map[k] ELSE Zero

FNeg(a) == <<-a[1], a[2]>>
FSub(a, b) == FAdd(a, FNeg(b))

main_NodeInfo_new == [regret_sum |-> EmptyMap, strategy |-> EmptyMap, strategy_sum |-> EmptyMap]

get_info_set(h, d) == [card |-> main_get_player_card(h.player_to_move, d), history |-> h]

\* first loop of NodeInfo::get_strategy over MOVE_LIST[1..i]:
\* <<strategy, normalizing_sum>>
RECURSIVE main_get_strategy_loop1(_, _)
main_get_strategy_loop1(n, i) ==
    IF i = 0 THEN <<n.strategy, Zero>>
    ELSE LET prev == main_get_strategy_loop1(n, i - 1)
             m == MOVE_LIST[i]
             r == MapGetOrZero(n.regret_sum, m)
             r_pos == IF FGt(r, Zero) THEN r ELSE Zero
         IN  <<MapInsert(prev[1], m, r_pos), FAdd(prev[2], r_pos)>>

\* second loop of NodeInfo::get_strategy over MOVE_LIST[1..i]:
\* <<strategy, strategy_sum>>
RECURSIVE main_get_strategy_loop2(_, _, _, _, _)
main_get_strategy_loop2(strategy, strategy_sum, normalizing_sum, realization_weight, i) ==
    IF i = 0 THEN <<strategy, strategy_sum>>
    ELSE LET prev == main_get_strategy_loop2(strategy, strategy_sum, normalizing_sum,
                                             realization_weight, i - 1)
             m == MOVE_LIST[i]
             strat_m == IF FGt(normalizing_sum, Zero)
                        THEN FDiv(prev[1][m], normalizing_sum)
                        ELSE FDiv(One, FromInt(Len(MOVE_LIST)))
             s_sum == MapGetOrZero(prev[2], m)
         IN  <<MapInsert(prev[1], m, strat_m),
               MapInsert(prev[2], m, FAdd(s_sum, FMul(realization_weight, strat_m)))>>

\* NodeInfo::get_strategy(&mut self, realization_weight): the NodeInfo after
\* the call; the value returned is a reference to its strategy
main_get_strategy(n, realization_weight) ==
    LET first == main_get_strategy_loop1(n, Len(MOVE_LIST))
        second == main_get_strategy_loop2(first[1], n.strategy_sum, first[2],
                                          realization_weight, Len(MOVE_LIST))
    IN  [regret_sum |-> n.regret_sum, strategy |-> second[1], strategy_sum |-> second[2]]

\* cfr_recursive and its first loop call each other. Both yield a record
\* [hist, node_map, status, value, utils]: the shared history and node map
\* as the call leaves them, status "returned" or "panicked", the value
\* returned and (for the loop) the utilities gathered so far.
RECURSIVE cfr_recursive(_, _, _, _, _)
RECURSIVE cfr_moves_loop(_, _, _, _, _, _)

\* lines 287-299, over MOVE_LIST[1..i]; st.value is node_util
cfr_moves_loop(d, entry, info_set, prob_0, prob_1, i) ==
    IF i = 0 THEN entry
    ELSE LET st == cfr_moves_loop(d, entry, info_set, prob_0, prob_1, i - 1)
             m == MOVE_LIST[i]
             current_player == info_set.history.player_to_move
             opponent == other_player(current_player)
             appended == History_append(st.hist, opponent, m)
             strat_m == st.node_map[info_set].strategy[m]
             rec == IF current_player = "Player0"
                    THEN cfr_recursive(d, st.node_map, appended.val, FMul(prob_0, strat_m), prob_1)
                    ELSE cfr_recursive(d, st.node_map, appended.val, prob_0, FMul(prob_1, strat_m))
             util_m == FMul(FromInt(-1), rec.value)
         IN  IF st.status = "panicked" THEN st
             ELSE IF ~IsSome(appended) THEN [st EXCEPT !.status = "panicked"]
             ELSE IF rec.status = "panicked"
                  THEN [st EXCEPT !.hist = rec.hist, !.node_map = rec.node_map,
                                  !.status = "panicked"]
             ELSE [hist |-> History_retract(rec.hist),
                   node_map |-> rec.node_map,
                   status |-> "returned",
                   value |-> FAdd(st.value, FMul(strat_m, util_m)),
                   utils |-> MapInsert(st.utils, m, util_m)]

\* lines 302-312, over MOVE_LIST[1..i]: regret_sum of the node of info_set
RECURSIVE cfr_regret_loop(_, _, _, _, _)
cfr_regret_loop(regret_sum, utils, node_util, counterfact_prob, i) ==
    IF i = 0 THEN regret_sum
    ELSE LET prev == cfr_regret_loop(regret_sum, utils, node_util, counterfact_prob, i - 1)
             m == MOVE_LIST[i]
             regret_m == FSub(utils[m], node_util)
         IN  IF m \in DOMAIN prev
             THEN [prev EXCEPT ![m] = FAdd(@, FMul(counterfact_prob, regret_m))]
             ELSE prev

\* the terminal branch retracts the shared history before returning (line
\* 267). The function body has no tail expression after the second loop;
\* node_util stands for the value returned there.
cfr_recursive(d, node_map, h, prob_0, prob_1) ==
    LET u == main_util_if_terminal(h, d)
        info_set == get_info_set(h, d)
        inserted == IF info_set \in DOMAIN node_map THEN node_map
                    ELSE MapInsert(node_map, info_set, main_NodeInfo_new)
        current_player == h.player_to_move
        weight == IF current_player = "Player0" THEN prob_0 ELSE prob_1
        with_strategy == [inserted EXCEPT ![info_set] = main_get_strategy(@, weight)]
        entry == [hist |-> h, node_map |-> with_strategy, status |-> "returned",
                  value |-> Zero, utils |-> EmptyMap]
        looped == cfr_moves_loop(d, entry, info_set, prob_0, prob_1, Len(MOVE_LIST))
        counterfact_prob == IF current_player = "Player0" THEN prob_1 ELSE prob_0
        regrets == cfr_regret_loop(looped.node_map[info_set].regret_sum, looped.utils,
                                   looped.value, counterfact_prob, Len(MOVE_LIST))
    IN  IF IsSome(u)
        THEN [hist |-> History_retract(h), node_map |-> node_map, status |-> "returned",
              value |-> FromInt(u.val), utils |-> EmptyMap]
        ELSE IF looped.status = "panicked" THEN looped
        ELSE [looped EXCEPT !.node_map[info_set].regret_sum = regrets]

\* a call cfr_recursive(&deck, &mut node_map, &mut hist, 1.0, 1.0), as main makes it
CfrRecursive ==
    /\ ~mpanic
    /\ LET r == cfr_recursive(mdeck, mnode_map, mhist, One, One)
       IN  /\ entryHist' = mhist
           /\ mhist' = r.hist
           /\ mnode_map' = r.node_map
           /\ cfrOutcome' = r.status
           /\ mpanic' = (r.status = "panicked")
    /\ UNCHANGED <<mdeck, histVars, nodeVars>>

----------------------------------------------------------------------------
\* solver_tree.rs: NodeInfo

\* HashMap::insert
Insert(map, k, v) == [x \in (DOMAIN map) \cup {k} |-> IF x = k THEN v ELSE map[x]]
\* HashMap::get(..).unwrap_or(&0.0)
GetOrZero(map, k) == IF k \in DOMAIN map THEN map[k] ELSE Zero

new_move_to_float_map_zeros(legal_moves) == [m \in Range(legal_moves) |-> Zero]

new_move_to_float_map_probs(legal_moves) ==
    LET num_moves == Len(legal_moves)
    IN  [m \in Range(legal_moves) |-> FDiv(One, FromInt(num_moves))]

NodeInfo_new(legal_moves) ==
    [regret_sum |-> new_move_to_float_map_zeros(legal_moves),
     strategy |-> new_move_to_float_map_probs(legal_moves),
     strategy_sum |-> new_move_to_float_map_zeros(legal_moves)]

\* get_strategy: expect() panics on a move without a strategy
get_strategy(n, m) == IF m \in DOMAIN n.strategy THEN Some(n.strategy[m]) ELSE Panicked

\* update_regret: expect() panics on a move without a regret sum
update_regret(n, m, r) ==
    IF m \in DOMAIN n.regret_sum
    THEN Some([n EXCEPT !.regret_sum[m] = FAdd(@, r)])
    ELSE Panicked

\* mutant: a negative regret is not clamped to 0
r_pos_of_unclamped(r) == r

\* line 276: the positive part of a regret
r_pos_of(r) == IF FGt(r, Zero) THEN r ELSE Zero

\* mutant: the uniform fallback is missing
strat_m_of_no_fallback(s, normalizing_sum, num_moves) ==
    IF FGt(normalizing_sum, Zero)
    THEN FDiv(s, normalizing_sum)
    ELSE s

\* lines 281-285: the new strategy of a move holding the positive part s
strat_m_of(s, normalizing_sum, num_moves) ==
    IF FGt(normalizing_sum, Zero)
    THEN FDiv(s, normalizing_sum)
    ELSE FDiv(One, FromInt(num_moves))

\* first loop of update_strategy over legal_moves[1..i]:
\* <<strategy, normalizing_sum>>
RECURSIVE update_strategy_loop1(_, _, _)
update_strategy_loop1(n, legal_moves, i) ==
    IF i = 0 THEN <<n.strategy, Zero>>
    ELSE LET prev == update_strategy_loop1(n, legal_moves, i - 1)
             m == legal_moves[i]
             r == GetOrZero(n.regret_sum, m)
             r_pos == r_pos_of(r)
         IN  <<Insert(prev[1], m, r_pos), FAdd(prev[2], r_pos)>>

\* second loop of update_strategy over legal_moves[1..i], with w the
\* realization_weight: <<strategy, strategy_sum>>
RECURSIVE update_strategy_loop2(_, _, _, _, _, _)
update_strategy_loop2(strategy, strategy_sum, normalizing_sum, legal_moves, w, i) ==
    IF i = 0 THEN <<strategy, strategy_sum>>
    ELSE LET prev == update_strategy_loop2(strategy, strategy_sum, normalizing_sum,
                                           legal_moves, w, i - 1)
             m == legal_moves[i]
             strat_m == strat_m_of(prev[1][m], normalizing_sum, Len(legal_moves))
             sum_update == FMul(w, strat_m)
         IN  <<Insert(prev[1], m, strat_m),
               Insert(prev[2], m, FAdd(GetOrZero(prev[2], m), sum_update))>>

update_strategy(n, legal_moves, realization_weight) ==
    LET first == update_strategy_loop1(n, legal_moves, Len(legal_moves))
        second == update_strategy_loop2(first[1], n.strategy_sum, first[2], legal_moves,
                                        realization_weight, Len(legal_moves))
    IN  [regret_sum |-> n.regret_sum, strategy |-> second[1], strategy_sum |-> second[2]]

\* mutant: the current strategy is returned instead of the average
get_average_strategy_current(n, legal_moves) ==
    [m \in Range(legal_moves) |-> GetOrZero(n.strategy, m)]

get_average_strategy(n, legal_moves) ==
    LET normalizing_sum ==
            LET RECURSIVE Sum(_)
                Sum(i) == IF i = 0 THEN Zero
                          ELSE FAdd(Sum(i - 1), GetOrZero(n.strategy_sum, legal_moves[i]))
            IN  Sum(Len(legal_moves))
    IN  [m \in Range(legal_moves) |->
            IF FGt(normalizing_sum, Zero)
            THEN FDiv(GetOrZero(n.strategy_sum, m), normalizing_sum)
            ELSE FDiv(One, FromInt(Len(legal_moves)))]

\* the non-empty legal-move lists of the InfoSets (InfoSet::get_next_moves)
LegalLists ==
    {next_moves([player_to_move |-> "Player0", moves |-> <<m>>]) : m \in Moves}
        \ {<<>>}

\* the regret contributions and realization weights the driver supplies
RegretSet == {<<-1, 1>>, <<2, 1>>, <<3, 1>>}
WeightSet == {Zero, <<1, 2>>, One}

UpdateRegret(m, r) ==
    /\ nodeStatus = "ok"
    /\ calls < MaxCalls
    /\ LET res == update_regret(node, m, r)
       IN  IF IsSome(res)
           THEN node' = res.val /\ nodeStatus' = "ok"
           ELSE node' = node /\ nodeStatus' = "panicked"
    /\ calls' = calls + 1
    /\ lastOp' = "update_regret"
    /\ avg' = None
    /\ UNCHANGED <<legal, stratLog, histVars, mainVars>>

UpdateStrategy(w) ==
    /\ nodeStatus = "ok"
    /\ calls < MaxCalls
    /\ node' = update_strategy(node, legal, w)
    /\ calls' = calls + 1
    /\ lastOp' = "update_strategy"
    /\ stratLog' = Append(stratLog, <<w, node'.strategy>>)
    /\ avg' = None
    /\ UNCHANGED <<legal, nodeStatus, histVars, mainVars>>

\* get_average_strategy(&self, legal_moves): a query, the NodeInfo is not written
GetAverageStrategy ==
    /\ nodeStatus = "ok"
    /\ avg' = Some(get_average_strategy(node, legal))
    /\ lastOp' = "get_average_strategy"
    /\ UNCHANGED <<legal, node, nodeStatus, calls, stratLog, histVars, mainVars>>

----------------------------------------------------------------------------
\* Specifications

InitMainVars ==
    /\ mhist = History_new
    /\ mpanic = FALSE
    /\ mnode_map = [x \in {} |-> Zero]
    /\ entryHist = History_new
    /\ cfrOutcome = "none"

InitNodeVars ==
    /\ node = NodeInfo_new(legal)
    /\ nodeStatus = "ok"
    /\ calls = 0
    /\ lastOp = "new"
    /\ stratLog = <<>>
    /\ avg = None

\* ChancyHistory: any deck of distinct cards, histories built from new()
Init ==
    /\ deck \in Decks
    /\ InitHistVars
    /\ mdeck = <<"Ace", "King", "Queen">>
    /\ InitMainVars
    /\ legal = <<"Check", "Bet">>
    /\ InitNodeVars

Next ==
    \/ \E m \in Moves, p \in ProbSet : Extend(m, p)
    \/ New

Spec == Init /\ [][Next]_vars

\* main.rs: any shuffled 3-card deck, histories built by append and retract
InitMain ==
    /\ deck = <<"Ace", "King", "Queen", "Jack", "Ten">>
    /\ InitHistVars
    /\ mdeck \in MainDecks
    /\ InitMainVars
    /\ legal = <<"Check", "Bet">>
    /\ InitNodeVars

NextMain ==
    \/ \E p \in Range(PLAYER_LIST), m \in Range(MOVE_LIST) : MainAppend(p, m)
    \/ MainRetract
    \/ CfrRecursive

SpecMain == InitMain /\ [][NextMain]_vars

\* NodeInfo: created for any non-empty legal-move list, then updated
InitNode ==
    /\ deck = <<"Ace", "King", "Queen", "Jack", "Ten">>
    /\ InitHistVars
    /\ mdeck = <<"Ace", "King", "Queen">>
    /\ InitMainVars
    /\ legal \in LegalLists
    /\ InitNodeVars

NextNode ==
    \/ \E m \in Moves, r \in RegretSet : UpdateRegret(m, r)
    \/ \E w \in WeightSet : UpdateStrategy(w)
    \/ GetAverageStrategy

SpecNode == InitNode /\ [][NextNode]_vars

----------------------------------------------------------------------------
\* Helpers of the properties

\* the move sequence of the ChancyHistory held
HistMoves == determinize(hist).moves

\* the player to move after n moves from the root
PlayerAfter(n) == IF n % 2 = 0 THEN "Player0" ELSE "Player1"

\* the player who makes the i-th move
MoverOf(i) == PlayerAfter(i - 1)

\* p[1] * ... * p[n] over the steps i with keep[i]
RECURSIVE ProductOver(_, _, _)
ProductOver(p, keep, n) ==
    IF n = 0 THEN One
    ELSE IF keep[n] THEN FMul(ProductOver(p, keep, n - 1), p[n])
    ELSE ProductOver(p, keep, n - 1)

\* the ChancyHistory built from new() by extend(mv[1], ps[1]) ... extend(mv[n], ps[n])
RECURSIVE Replay(_, _, _)
Replay(mv, ps, n) ==
    IF n = 0 THEN ChancyHistory_new
    ELSE extend(Replay(mv, ps, n - 1), mv[n], ps[n]).val

\* the running pair <<prob_0, prob_1>> of a ChancyHistory
RunningPair(ch) ==
    IF len(ch) = 0 THEN <<One, One>>
    ELSE ch.moves_and_counterfactual_reach_probs[len(ch)][1]

\* no move was played after [Check, Check], after a Call or after a Fold
PlayedToEndOnly(mv) ==
    /\ ~(Len(mv) > 2 /\ mv[1] = "Check" /\ mv[2] = "Check")
    /\ \A k \in 1..(Len(mv) - 1) : mv[k] \notin {"Call", "Fold"}

\* the betting-round rules: the moves allowed after a last move
RuleAfter(last) ==
    CASE last = "Check" -> {"Check", "Bet"}
      [] last = "Bet" -> {"Call", "Raise", "Fold"}
      [] last = "Raise" -> {"Call", "Fold"}
      [] last = "Call" -> {}
      [] last = "Fold" -> {}

----------------------------------------------------------------------------
C2_TerminationClasses ==
    LET mv == HistMoves
        n == Len(mv)
        t == termination_type(determinize(hist))
    IN  PlayedToEndOnly(mv) =>
            /\ (n = 0 \/ mv = <<"Check">>) => t = "InProgress"
            /\ (n > 0 /\ mv[n] \in {"Bet", "Raise"}) => t = "InProgress"
            /\ mv = <<"Check", "Check">> => t = "DoubleCheck"
            /\ (n > 0 /\ mv[n] = "Fold") => t = "Fold"
            /\ (n > 0 /\ mv[n] = "Call") =>
                   t = "Showdown" /\ n > 1 /\ mv[n - 1] \in {"Bet", "Raise"}
            /\ (is_terminal(hist) = "true") = (t \in {"DoubleCheck", "Fold", "Showdown"})

C2_Witness ==
    /\ HistMoves = <<"Check", "Bet", "Raise", "Call">>
    /\ termination_type(determinize(hist)) = "Showdown"

\* C3: util_if_terminal is None exactly for InProgress histories; for a
\* terminal history it is the payoff of the player to move: +1/-1 by the
\* higher card after DoubleCheck, +1 (+2 with a Raise) after a Fold whatever
\* the cards, 2 (3 with a Raise) signed by the higher card at a Showdown.
C3_TerminalUtilities ==
    LET mv == HistMoves
        n == Len(mv)
        t == termination_type(determinize(hist))
        u == util_if_terminal(hist, deck)
        mover == PlayerAfter(n)
        higher == CardRank(get_player_card(mover, deck))
                      > CardRank(get_player_card(other_player(mover), deck))
        sign == IF higher THEN 1 ELSE -1
        raised == \E i \in 1..n : mv[i] = "Raise"
    IN  /\ (u.tag = "None") = (t = "InProgress")
        /\ t = "DoubleCheck" => u = Some(sign)
        /\ t = "Fold" => u = Some(IF raised THEN 2 ELSE 1)
        /\ t = "Showdown" => u = Some(sign * (IF raised THEN 3 ELSE 2))

C3_Witness ==
    /\ HistMoves = <<"Bet", "Raise", "Fold">>
    /\ CardRank(deck[2]) < CardRank(deck[1])
    /\ util_if_terminal(hist, deck) = Some(2)

\* C5: extend(m, p) returns None, without panicking and with the history
\* held unchanged, exactly when m is not a next move of the receiver;
\* otherwise the result holds the receiver's moves followed by m and the other
\* player to move, so that Player0 is to move exactly at even lengths.
C5_ExtendLegality ==
    /\ hist.player_to_move = PlayerAfter(len(hist))
    /\ lastMove # "NoCall" =>
        /\ ret.tag # "Panic"
        /\ (ret.tag = "None") = (lastMove \notin Range(next_moves(determinize(recv))))
        /\ ret.tag = "None" => hist = recv
        /\ ret.tag = "Some" =>
            /\ determinize(ret.val).moves = Append(determinize(recv).moves, lastMove)
            /\ ret.val.player_to_move = other_player(recv.player_to_move)
            /\ (ret.val.player_to_move = "Player0") = (len(ret.val) % 2 = 0)
            /\ hist = ret.val

C5_Witness ==
    /\ determinize(recv).moves = <<"Check", "Bet">>
    /\ lastMove = "Check"
    /\ ret.tag = "None"

\* C6: the reach probability of the root is 1, and that of a history built
\* by successful extend calls is the product of all the probabilities given.
C6_ReachProbIsProduct ==
    /\ Len(probs) = len(hist)
    /\ len(hist) = 0 => get_reach_prob(hist) = One
    /\ get_reach_prob(hist) = ProductOver(probs, [i \in 1..Len(probs) |-> TRUE], Len(probs))

C6_Witness ==
    /\ probs = << <<4, 5>>, <<7, 10>>, <<4, 5>> >>
    /\ get_reach_prob(hist) = <<56, 125>>

\* C7: the counterfactual reach probability is the product of the
\* probabilities of the opponent's steps (1 without any), is the same for
\* every other choice of the probabilities of the steps of the player now to
\* move, and each extend multiplies the mover's coordinate only.
C7_CounterfactualReach ==
    LET n == len(hist)
        me == PlayerAfter(n)
        opp == [i \in 1..n |-> MoverOf(i) # me]
    IN  /\ get_counterfactual_reach_prob(hist) = ProductOver(probs, opp, n)
        /\ \A alt \in [1..n -> ProbSet] :
               (\A i \in 1..n : opp[i] => alt[i] = probs[i]) =>
                   get_counterfactual_reach_prob(Replay(HistMoves, alt, n))
                       = get_counterfactual_reach_prob(hist)
        /\ ret.tag = "Some" =>
               LET old == RunningPair(recv)
                   new == RunningPair(ret.val)
                   p == probs[Len(probs)]
               IN  IF recv.player_to_move = "Player0"
                   THEN new = <<FMul(old[1], p), old[2]>>
                   ELSE new = <<old[1], FMul(old[2], p)>>

C7_Witness ==
    /\ HistMoves = <<"Check", "Bet", "Raise">>
    /\ probs = << <<4, 5>>, <<7, 10>>, <<4, 5>> >>
    /\ get_counterfactual_reach_prob(hist) = <<16, 25>>

\* C8: the InfoSet of a history is the same for every deck that gives the
\* player to move the same card, and for every other annotation of the same
\* moves with reach probabilities. (Both hold in every reachable state, so
\* they compose: any two histories with the same moves on any two decks that
\* agree on the mover's card yield equal InfoSets.)
C8_InfoSetHidesOpponent ==
    LET n == len(hist)
        me == hist.player_to_move
        here == to_info_set(hist, deck)
    IN  /\ \A d2 \in Decks :
               get_player_card(me, d2) = get_player_card(me, deck) =>
                   to_info_set(hist, d2) = here
        /\ \A alt \in [1..n -> ProbSet] :
               to_info_set(Replay(HistMoves, alt, n), deck) = here
        /\ here = [card |-> deck[IF n % 2 = 0 THEN 1 ELSE 2],
                   history |-> [player_to_move |-> PlayerAfter(n), moves |-> HistMoves]]

C8_Witness ==
    /\ HistMoves = <<"Check", "Bet", "Raise">>
    /\ probs = << <<4, 5>>, <<7, 10>>, <<4, 5>> >>
    /\ deck = <<"Ace", "Ten", "King", "Queen", "Jack">>
    /\ to_info_set(hist, deck).card = "Ten"

----------------------------------------------------------------------------
\* C4: in the Pass/Bet variant, [Pass, Pass] pays -1 to a player to move who
\* holds the lower card and +1 to one who holds the higher card, and
\* [Bet, Pass] pays +1 whatever the cards. (Violated: main.rs tests
\* `len() == 0` inside the `len() > 1` branch, so [Pass, Pass] always pays +1.)
C4_PassBetPayoffs ==
    LET u == main_util_if_terminal(mhist, mdeck)
        me == mhist.player_to_move
        higher == MainCardRank(main_get_player_card(me, mdeck))
                      > MainCardRank(main_get_player_card(other_player(me), mdeck))
    IN  /\ mhist.moves = <<"Pass", "Pass">> => u = Some(IF higher THEN 1 ELSE -1)
        /\ mhist.moves = <<"Bet", "Pass">> => u = Some(1)

----------------------------------------------------------------------------
\* Helpers of the NodeInfo properties

\* the sum of f over the set S of its keys
RECURSIVE SumOver(_, _)
SumOver(f, S) ==
    IF S = {} THEN Zero
    ELSE LET x == CHOOSE y \in S : TRUE
         IN  FAdd(f[x], SumOver(f, S \ {x}))

\* max(r, 0)
PosPart(r) == IF r[1] > 0 THEN r ELSE Zero

IsDistributionOver(f, L) ==
    /\ DOMAIN f = Range(L)
    /\ \A m \in DOMAIN f : f[m][1] >= 0 /\ f[m][2] > 0
    /\ SumOver(f, DOMAIN f) = One

\* this step is a call of update_strategy
UpdateStrategyStep == calls' = calls + 1 /\ lastOp' = "update_strategy"

\* C9: the current strategy of a NodeInfo created for the non-empty list L
\* is a probability distribution over exactly L: uniform right after
\* creation, and still a distribution after any update_regret(m, r) with m
\* in L and any update_strategy(L, w).
C9_StrategyIsDistribution ==
    nodeStatus = "ok" =>
        /\ IsDistributionOver(node.strategy, legal)
        /\ lastOp = "new" =>
               \A m \in Range(legal) : node.strategy[m] = <<1, Len(legal)>>

C9_Witness ==
    /\ nodeStatus = "ok"
    /\ lastOp = "update_strategy"
    /\ legal = <<"Call", "Raise", "Fold">>
    /\ node.regret_sum = [m \in {"Call", "Raise", "Fold"} |->
                             IF m = "Call" THEN <<3, 1>>
                             ELSE IF m = "Raise" THEN <<-1, 1>> ELSE <<2, 1>>]
    /\ node.strategy = [m \in {"Call", "Raise", "Fold"} |->
                           IF m = "Call" THEN <<3, 5>>
                           ELSE IF m = "Raise" THEN <<0, 1>> ELSE <<2, 5>>]

\* C10: update_strategy(L, w) is regret matching: with pos(m) the positive
\* part of the regret of m and S the sum of pos over L, the new strategy of m
\* is pos(m)/S when S > 0 and 1/|L| when S = 0; regret_sum is left unchanged.
C10_RegretMatching ==
    [][UpdateStrategyStep =>
        LET pos == [m \in Range(legal) |-> PosPart(node.regret_sum[m])]
            S == SumOver(pos, Range(legal))
        IN  /\ node'.regret_sum = node.regret_sum
            /\ DOMAIN node'.strategy = Range(legal)
            /\ \A m \in Range(legal) :
                   IF S[1] > 0
                   THEN FMul(node'.strategy[m], S) = pos[m]
                   ELSE node'.strategy[m] = <<1, Len(legal)>>]_vars

C10_Witness ==
    /\ lastOp = "update_strategy"
    /\ legal = <<"Check", "Bet">>
    /\ node.regret_sum = [m \in {"Check", "Bet"} |->
                             IF m = "Check" THEN <<3, 1>> ELSE <<-1, 1>>]
    /\ node.strategy = [m \in {"Check", "Bet"} |->
                           IF m = "Check" THEN <<1, 1>> ELSE <<0, 1>>]

----------------------------------------------------------------------------
\* Helpers of the average-strategy property

\* sum over the logged update_strategy calls 1..i of w_i * s_i[m]
RECURSIVE WeightedSum(_, _, _)
WeightedSum(log, m, i) ==
    IF i = 0 THEN Zero
    ELSE FAdd(WeightedSum(log, m, i - 1), FMul(log[i][1], log[i][2][m]))

\* the reach-weighted average of the logged strategies over L, uniform when
\* the total weight is zero
ExpectedAverage(log, L) ==
    LET num == [m \in Range(L) |-> WeightedSum(log, m, Len(log))]
        total == SumOver(num, Range(L))
    IN  [m \in Range(L) |->
            IF total[1] > 0 THEN FDiv(num[m], total) ELSE <<1, Len(L)>>]

\* this step is a call of get_average_strategy
GetAverageStep == lastOp' = "get_average_strategy" /\ avg'.tag = "Some"

\* C11: after update_strategy(L, w_i) calls that set the strategies s_i,
\* get_average_strategy(L) returns for each m of L the sum of w_i * s_i[m]
\* divided by the total of these sums over L, and 1/|L| when that total is 0;
\* after a single update of weight 1 it is that update's strategy; the call
\* does not modify the NodeInfo.
C11_AverageStrategy ==
    [][GetAverageStep =>
        /\ node' = node
        /\ avg'.val = ExpectedAverage(stratLog, legal)
        /\ (Len(stratLog) = 1 /\ stratLog[1][1] = One) => avg'.val = stratLog[1][2]]_vars

C11_Witness ==
    /\ lastOp = "get_average_strategy"
    /\ legal = <<"Check", "Bet">>
    /\ Len(stratLog) = 1
    /\ stratLog[1][1] = One
    /\ avg = Some([m \in {"Check", "Bet"} |-> IF m = "Check" THEN <<3, 5>> ELSE <<2, 5>>])

----------------------------------------------------------------------------
\* C12: every ChancyHistory built by successful extend calls is classified
\* without reaching the panic branch of termination_type, because extend
\* returns None for every move on a terminal history (DoubleCheck, Fold or
\* Showdown), so that a play is terminal after at most 4 moves. (Violated:
\* next_moves looks at the last move only and allows Check and Bet after
\* [Check, Check], so extend succeeds on that DoubleCheck history and
\* [Check, Check, Check] reaches the panic branch.)
C12_TerminalHistoriesStop ==
    LET Terminal == {"DoubleCheck", "Fold", "Showdown"}
    IN  /\ termination_type(determinize(hist)) # "Panic"
        /\ is_terminal(hist) # "Panic"
        /\ (lastMove # "NoCall" /\ termination_type(determinize(recv)) \in Terminal)
               => ret.tag = "None"
        /\ len(hist) >= 4 => termination_type(determinize(hist)) \in Terminal

----------------------------------------------------------------------------
\* C13: cfr_recursive leaves the shared history as it found it: when the
\* call returns, hist has the length, the moves and the player to move it had
\* at entry, for a terminal and for a non-terminal entry history. (Violated:
\* the terminal branch retracts before it returns, so a call entered on a
\* terminal history returns with the history one move shorter.)
C13_HistoryRestored ==
    cfrOutcome = "returned" => mhist = entryHist

====
